---------------------------- MODULE Spec2Model ----------------------------
(***************************************************************************)
(* FlexDAO demand-flexibility simulation (backend/simulate.py).            *)
(*                                                                         *)
(* simulate() is a sequential batch program.  The model follows it step by *)
(* step: household generation, then per household the baseline, Pass 1     *)
(* (one step per slot), Pass 2 (one step per day), then the rewards, the   *)
(* events and the summary.  The pseudorandom draws (household parameters,  *)
(* baseline noise, the daily response draw) are nondeterministic choices.  *)
(*                                                                         *)
(* Floats are held in fixed point:                                         *)
(*   power  (kW)   and energy (kWh) : 1/8000 of a unit  (KW units per kW)  *)
(*   x * 0.5  is  x \div 2,   x / 0.5  is  x * 2                           *)
(*   DUCK_CURVE in 1/480, FLEX_PROFILE in 1/20, noise in 1/100             *)
(*   peak_demand_kw, max_shift_fraction, p_respond in 1/100,               *)
(*   max_shift_hours in 1/10                                               *)
(*   carbon (gCO2) in 1/8000 g; tokens in 1/(8000 * TokenSub) token        *)
(* Division truncates to the unit, so results that are exact in the reals  *)
(* are exact here up to one unit per division.                             *)
(***************************************************************************)
EXTENDS Integers, Sequences, FiniteSets, TLC

\* Number of households simulated.  The program sets 25; the model runs the
\* same loops over a smaller population.
N_HOUSEHOLDS == 2

HIGH_THRESHOLD == 150

\* Fixed-point resolution of power and energy: units per kW (and per kWh).
KW == 8 * 1000

\* 0.05 kW, the demand floor of lines 172 and 216.
FLOOR_KW == KW \div 20

\* 0.001 kW, the participation threshold of line 304.
PARTICIPATION_KW == KW \div 1000

\* 1 FLEX token = 1 kg CO2 avoided: the divisor of line 282.
GRAMS_PER_TOKEN == 1000

\* Tokens are held TokenSub times finer than grams, so that the division by
\* GRAMS_PER_TOKEN is exact.
TokenSub == GRAMS_PER_TOKEN

-----------------------------------------------------------------------------
(* Arithmetic helpers *)

Min2(a, b) == IF a <= b THEN a ELSE b

Max2(a, b) == IF a >= b THEN a ELSE b

SetMin(S) == CHOOSE x \in S : \A y \in S : x <= y

SetMax(S) == CHOOSE x \in S : \A y \in S : x >= y

Abs(x) == IF x >= 0 THEN x ELSE -x

RECURSIVE SumOver(_, _)
\* sum of f[i] for i in the finite set S
SumOver(f, S) ==
    IF S = {} THEN 0
    ELSE LET i == CHOOSE j \in S : TRUE IN f[i] + SumOver(f, S \ {i})

\* Python round(x, k): x to the nearest multiple of q, ties to the even multiple.
RoundTo(x, q) ==
    LET lo == x \div q
        r  == x % q
    IN  IF 2 * r < q THEN lo * q
        ELSE IF 2 * r > q THEN (lo + 1) * q
        ELSE IF lo % 2 = 0 THEN lo * q ELSE (lo + 1) * q

-----------------------------------------------------------------------------
(* Demand profile shapes, by half-hour-of-day index 0..47 *)

\* _duck_curve_base(), in 1/480
DUCK_CURVE(hod) ==
    IF hod < 12 THEN 144
    ELSE IF hod < 16 THEN 144 + 84 * (hod - 12)
    ELSE IF hod < 24 THEN 408 - 9 * (hod - 16)
    ELSE IF hod < 32 THEN 336
    ELSE IF hod < 36 THEN 336 + 72 * (hod - 32)
    ELSE IF hod < 42 THEN 624 - 8 * (hod - 36)
    ELSE IF hod < 46 THEN 480 - 60 * (hod - 42)
    ELSE 168

\* _flexible_fraction_profile(), in 1/20
FLEX_PROFILE(hod) ==
    IF hod < 12 THEN 14
    ELSE IF hod < 18 THEN 8
    ELSE IF hod < 32 THEN 10
    ELSE IF hod < 40 THEN 3
    ELSE 12

-----------------------------------------------------------------------------
(* Intensity selection, line 124 and the float conversion of line 128 *)

Absent == [kind |-> "absent", val |-> 0]

Null == [kind |-> "null", val |-> 0]

Num(v) == [kind |-> "num", val |-> v]

NaN == [kind |-> "nan", val |-> 0]

\* Python truthiness of a JSON value obtained with dict.get: None and 0 are falsy.
Truthy(x) == x.kind = "num" /\ x.val # 0

\* slot["intensity"].get("actual") or slot["intensity"].get("forecast", 0),
\* then np.array(..., dtype=float): None becomes nan.
SelectIntensity(rec) ==
    LET a == IF rec.actual.kind = "absent" THEN Null ELSE rec.actual
        f == IF rec.forecast.kind = "absent" THEN Num(0) ELSE rec.forecast
        picked == IF Truthy(a) THEN a ELSE f
    IN  IF picked.kind = "num" THEN picked ELSE NaN

\* intensity < HIGH_THRESHOLD on floats: every comparison with nan is False.
BelowThreshold(x) == x.kind = "num" /\ x.val < HIGH_THRESHOLD

\* intensity >= HIGH_THRESHOLD on floats
AtLeastThreshold(x) == x.kind = "num" /\ x.val >= HIGH_THRESHOLD


-----------------------------------------------------------------------------
(* Input: carbon_week.json, an ordered list of half-hour slot records *)

Stamp(d, h, m) == [date |-> d, hour |-> h, minute |-> m]

\* One day, 00:00-02:00: every slot in the overnight preferred window.
NightDay == <<Stamp(1, 0, 0), Stamp(1, 0, 30), Stamp(1, 1, 0), Stamp(1, 1, 30)>>

\* One day, 09:00-11:00: only the last two slots in the midday preferred window.
MorningDay == <<Stamp(1, 9, 0), Stamp(1, 9, 30), Stamp(1, 10, 0), Stamp(1, 10, 30)>>

\* Two days around midnight: three late-evening slots (outside the preferred
\* windows), then the first slot of the next day.
TwoDays == <<Stamp(1, 22, 30), Stamp(1, 23, 0), Stamp(1, 23, 30), Stamp(2, 0, 0)>>

\* One day, 04:30-06:30: only the first three slots in the overnight window.
DawnDay == <<Stamp(1, 4, 30), Stamp(1, 5, 0), Stamp(1, 5, 30), Stamp(1, 6, 0)>>

\* One day, 09:00-15:30: thirteen slots of the working day.
WorkingDay ==
    <<Stamp(1, 9, 0), Stamp(1, 9, 30), Stamp(1, 10, 0), Stamp(1, 10, 30),
      Stamp(1, 11, 0), Stamp(1, 11, 30), Stamp(1, 12, 0), Stamp(1, 12, 30),
      Stamp(1, 13, 0), Stamp(1, 13, 30), Stamp(1, 14, 0), Stamp(1, 14, 30),
      Stamp(1, 15, 0)>>

\* stands for a slot whose actual and forecast are both null
NoData == -1

\* The intensity record of a slot whose usable value is v, in the shapes the
\* grid API produces: actual and forecast, actual still null, forecast
\* missing, both null.
IntensityRecord(v) ==
    IF v = NoData THEN [actual |-> Null, forecast |-> Null]
    ELSE IF v = 100 THEN [actual |-> Null, forecast |-> Num(100)]
    ELSE IF v = 200 THEN [actual |-> Num(200), forecast |-> Absent]
    ELSE [actual |-> Num(v), forecast |-> Num(v + 25)]

CarbonOf(stamps, vals) ==
    [i \in 0..(Len(stamps) - 1) |->
        [from |-> stamps[i + 1], intensity |-> IntensityRecord(vals[i])]]

WeeksOf(stamps, values) ==
    {CarbonOf(stamps, vals) : vals \in [0..(Len(stamps) - 1) -> values]}

\* the four-slot day [100, 200, 200, 50]
ScenarioIntensities == [i \in 0..3 |-> IF i = 0 THEN 100 ELSE IF i = 3 THEN 50 ELSE 200]

\* weeks with partial data: the second slot of the day has no figure
PartialWeeks ==
    {CarbonOf(NightDay, vals) :
        vals \in {v \in [0..3 -> {NoData, 100, 200}] :
                    \A i \in 0..3 : (v[i] = NoData) = (i = 1)}}

\* working days on a dirty grid: high-carbon throughout, the first half hour
\* at 200 or slightly cleaner at 190
WorkingWeeks ==
    {CarbonOf(WorkingDay, [i \in 0..12 |-> IF i = 0 THEN first ELSE 200]) :
        first \in {190, 200}}

CarbonInputs ==
    WeeksOf(NightDay, {50, 100, 200})
        \cup WorkingWeeks
        \cup PartialWeeks
        \cup WeeksOf(MorningDay, {50, 100, 200})
        \cup WeeksOf(TwoDays, {100, 150, 200})
        \cup {CarbonOf(DawnDay, ScenarioIntensities)}

-----------------------------------------------------------------------------
(* Household profiles the generator can draw (lines 140-159) and the noise  *)
(* drawn for the household at line 170                                       *)

Profiles ==
    << [peak_raw |-> 200, max_shift_fraction |-> 30, max_shift_hours |-> 40,
        p_respond |-> 100,
        noise |-> <<100, 100, 100, 100, 100, 100, 100, 100, 100, 100, 100, 100, 100>>],
       [peak_raw |-> 65, max_shift_fraction |-> 20, max_shift_hours |-> 20,
        p_respond |-> 50,
        noise |-> <<60, 104, 97, 100, 95, 103, 100, 98, 106, 100, 94, 101, 100>>],
       [peak_raw |-> 180, max_shift_fraction |-> 26, max_shift_hours |-> 30,
        p_respond |-> 95,
        noise |-> <<100, 100, 102, 105, 100, 96, 100, 103, 99, 100, 100, 107, 100>>],
       [peak_raw |-> 150, max_shift_fraction |-> 40, max_shift_hours |-> 20,
        p_respond |-> 80,
        noise |-> <<100, 100, 100, 100, 100, 100, 100, 100, 100, 100, 100, 100, 100>>] >>

\* rounds the draw to 2 decimals (the menu holds rounded draws), floors at 0.8 kW
HouseholdOf(p, i) ==
    [id |-> i + 1,
     peak_demand_kw |-> Max2(80, p.peak_raw),
     max_shift_fraction |-> p.max_shift_fraction,
     max_shift_hours |-> p.max_shift_hours,
     p_respond |-> p.p_respond,
     noise |-> p.noise]

Populations ==
    {[i \in 0..(N_HOUSEHOLDS - 1) |->
        HouseholdOf(Profiles[((base + i) % Len(Profiles)) + 1], i)] :
     base \in 0..(Len(Profiles) - 1)}

\* The values a field of a slot's intensity object can hold.
IntensityFields ==
    {Absent, Null} \cup {Num(v) : v \in {0, 50, 100, 149, 150, 151, 200, 300}}

Pending == [intensity |-> [kind |-> "pending", val |-> 0], high_carbon |-> FALSE]

-----------------------------------------------------------------------------
VARIABLES
    carbon,                  \* the parsed carbon_week.json
    households,              \* the generated population
    pc,                      \* position in simulate()
    hi,                      \* household loop index
    t,                       \* Pass 1 slot index
    day,                     \* Pass 2 day index
    baseline_all,
    shifted_all,
    shift_amount_all,
    shifted,                 \* the current household's working series
    max_daily_shift_energy,
    responded_today,         \* dict day -> bool
    shifted_energy_today,    \* dict day -> kWh removed
    hh_rewards,
    hh_total_shifted_kwh,
    hh_carbon_avoided,
    flex_events,
    summary,
    households_out,          \* the "households" list of flex_responses.json
    slot_intensity,          \* intensity selection alone: the record read
    selected                 \* intensity selection alone: the value stored

vars == <<carbon, households, pc, hi, t, day, baseline_all, shifted_all,
          shift_amount_all, shifted, max_daily_shift_energy, responded_today,
          shifted_energy_today, hh_rewards, hh_total_shifted_kwh,
          hh_carbon_avoided, flex_events, summary, households_out,
          slot_intensity, selected>>

engine_vars == <<carbon, households, pc, hi, t, day, baseline_all, shifted_all,
                 shift_amount_all, shifted, max_daily_shift_energy,
                 responded_today, shifted_energy_today, hh_rewards,
                 hh_total_shifted_kwh, hh_carbon_avoided, flex_events,
                 summary, households_out>>

-----------------------------------------------------------------------------
(* The slot index, lines 111-136: constant once carbon is read *)

n_slots == Cardinality(DOMAIN carbon)

Slots == 0..(n_slots - 1)

HH == 0..(N_HOUSEHOLDS - 1)

\* hod_idx = dt.hour * 2 + (1 if dt.minute >= 30 else 0)
slot_hod(s) ==
    carbon[s].from.hour * 2 + (IF carbon[s].from.minute >= 30 THEN 1 ELSE 0)

\* intensities[s], a float: a number or nan
intensities(s) == SelectIntensity(carbon[s].intensity)

\* some slot's intensity is nan
HasNaN == \E s \in Slots : intensities(s).kind = "nan"

\* unique_days = sorted(set(day_ids))
unique_days == {carbon[s].from.date : s \in Slots}

n_days == Cardinality(unique_days)

\* day_of_slot[s] = unique_days.index(day_ids[s])
day_of_slot(s) == Cardinality({d \in unique_days : d < carbon[s].from.date})

Days == 0..(n_days - 1)

\* np.where(day_of_slot == d)[0]
DaySlots(d) == {s \in Slots : day_of_slot(s) = d}

ZeroRow == [s \in Slots |-> 0]

ZeroMatrix == [h \in HH |-> ZeroRow]

EmptyDict == [d \in {} |-> 0]

-----------------------------------------------------------------------------
Init ==
    /\ carbon \in CarbonInputs
    /\ households = <<>>
    /\ pc = "start"
    /\ hi = 0
    /\ t = 0
    /\ day = 0
    /\ baseline_all = <<>>
    /\ shifted_all = <<>>
    /\ shift_amount_all = <<>>
    /\ shifted = <<>>
    /\ max_daily_shift_energy = 0
    /\ responded_today = EmptyDict
    /\ shifted_energy_today = EmptyDict
    /\ hh_rewards = <<>>
    /\ hh_total_shifted_kwh = <<>>
    /\ hh_carbon_avoided = <<>>
    /\ flex_events = <<>>
    /\ summary = <<>>
    /\ households_out = <<>>
    /\ slot_intensity = [actual |-> Absent, forecast |-> Absent]
    /\ selected = Pending

\* lines 138-165: draw the population, allocate the [household, slot] arrays
GenerateHouseholds ==
    /\ pc = "start"
    /\ households' \in Populations
    /\ baseline_all' = ZeroMatrix
    /\ shifted_all' = ZeroMatrix
    /\ shift_amount_all' = ZeroMatrix
    /\ hi' = 0
    /\ pc' = "household"
    /\ UNCHANGED <<carbon, t, day, shifted, max_daily_shift_energy,
                   responded_today, shifted_energy_today, hh_rewards,
                   hh_total_shifted_kwh, hh_carbon_avoided, flex_events,
                   summary, households_out, slot_intensity, selected>>

\* DUCK_CURVE[slot_hod] * pk * noise, clipped below at 0.05 kW (lines 170-172)
Baseline(hh, s) ==
    Max2((DUCK_CURVE(slot_hod(s)) * hh.peak_demand_kw * hh.noise[s + 1])
            \div ((480 * 100 * 100) \div KW),
         FLOOR_KW)

\* hh["max_shift_fraction"] * np.sum(baseline) / len(unique_days)  (line 180)
MaxDailyShiftEnergy(hh, baseline) ==
    (hh.max_shift_fraction * SumOver(baseline, Slots)) \div (100 * n_days)

\* lines 167-183
StartHousehold ==
    /\ pc = "household"
    /\ LET hh == households[hi]
           baseline == [s \in Slots |-> Baseline(hh, s)]
       IN  /\ baseline_all' = [baseline_all EXCEPT ![hi] = baseline]
           /\ max_daily_shift_energy' = MaxDailyShiftEnergy(hh, baseline)
           /\ shifted' = baseline
    /\ responded_today' = EmptyDict
    /\ shifted_energy_today' = EmptyDict
    /\ t' = 0
    /\ pc' = "pass1"
    /\ UNCHANGED <<carbon, households, hi, day, shifted_all, shift_amount_all,
                   hh_rewards, hh_total_shifted_kwh, hh_carbon_avoided,
                   flex_events, summary, households_out, slot_intensity,
                   selected>>

\* baseline * FLEX_PROFILE[slot_hod]  (line 176)
flex_available(h, s) == (baseline_all[h][s] * FLEX_PROFILE(slot_hod(s))) \div 20

\* intensity < HIGH_THRESHOLD: continue  (line 190)
LowCarbonSkip(s) == BelowThreshold(intensities(s))

\* the outcomes of rng.random() < p, random() in [0, 1)
ResponseDraws(p) == {b \in BOOLEAN : (b => p > 0) /\ (~b => p < 100)}

\* hours_so_far >= max_shift_hours, hours_so_far = energy / max(pk, 0.1)
HoursReached(hh, energy) ==
    energy * 100 * 10 >= hh.max_shift_hours * Max2(hh.peak_demand_kw, 10) * KW

\* shifted_energy_today[day] >= max_daily_shift_energy  (line 206)
EnergyReached(energy, budget) == energy >= budget

\* the cap by the flexible load left out
Curtail_NoFlexCap(flex, remaining_energy) == remaining_energy * 2

\* min(flex_available[t], remaining_energy / 0.5)  (lines 210-213)
Curtail(flex, remaining_energy) == Min2(flex, remaining_energy * 2)

\* the floor of line 216 left out
CurtailedDemand_NoFloor(demand, curtail) == demand - curtail

\* max(shifted[t] - curtail, 0.05)  (lines 215-216)
CurtailedDemand(demand, curtail) == Max2(demand - curtail, FLOOR_KW)

\* actual_curtail * 0.5  (line 219)
SlotEnergy(kw) == kw \div 2

GetOr(dict, k, default) == IF k \in DOMAIN dict THEN dict[k] ELSE default

Put(dict, k, v) == [x \in (DOMAIN dict) \cup {k} |-> IF x = k THEN v ELSE dict[x]]

\* one iteration of the Pass 1 loop  (lines 186-219)
Pass1Slot ==
    /\ pc = "pass1"
    /\ LET hh == households[hi]
           d == day_of_slot(t)
           draws == IF ~LowCarbonSkip(t) /\ d \notin DOMAIN responded_today
                    THEN ResponseDraws(hh.p_respond) ELSE {FALSE}
       IN  \E drawn \in draws :
             LET responded == IF LowCarbonSkip(t) THEN responded_today
                              ELSE IF d \in DOMAIN responded_today
                                   THEN responded_today
                                   ELSE Put(responded_today, d, drawn)
                 responds == ~LowCarbonSkip(t) /\ responded[d]
                 energy == GetOr(shifted_energy_today, d, 0)
                 acts == /\ responds
                         /\ ~HoursReached(hh, energy)
                         /\ ~EnergyReached(energy, max_daily_shift_energy)
                 curtail == Curtail(flex_available(hi, t),
                                    max_daily_shift_energy - energy)
                 demand == CurtailedDemand(shifted[t], curtail)
                 actual_curtail == baseline_all[hi][t] - demand
             IN  /\ responded_today' = responded
                 /\ shifted' = IF acts THEN [shifted EXCEPT ![t] = demand]
                               ELSE shifted
                 /\ shift_amount_all' =
                        IF acts
                        THEN [shift_amount_all EXCEPT ![hi][t] = actual_curtail]
                        ELSE shift_amount_all
                 /\ shifted_energy_today' =
                        IF acts
                        THEN Put(shifted_energy_today, d,
                                 energy + SlotEnergy(actual_curtail))
                        ELSE IF responds
                             THEN Put(shifted_energy_today, d, energy)
                             ELSE shifted_energy_today
    /\ t' = t + 1
    /\ day' = 0
    /\ pc' = IF t + 1 < n_slots THEN "pass1" ELSE "pass2"
    /\ UNCHANGED <<carbon, households, hi, baseline_all, shifted_all,
                   max_daily_shift_energy, hh_rewards, hh_total_shifted_kwh,
                   hh_carbon_avoided, flex_events, summary, households_out,
                   slot_intensity, selected>>

-----------------------------------------------------------------------------
(* Pass 2: re-add the curtailed energy to low-carbon windows (lines 222-253) *)

\* twice np.median of the intensities of the slots in S (S not empty, no nan)
Median2(S) ==
    LET n == Cardinality(S)
        Kth(k) == CHOOSE v \in {intensities(s).val : s \in S} :
                    /\ Cardinality({s \in S : intensities(s).val < v}) < k
                    /\ Cardinality({s \in S : intensities(s).val <= v}) >= k
    IN  IF n % 2 = 1 THEN 2 * Kth((n + 1) \div 2)
        ELSE Kth(n \div 2) + Kth((n \div 2) + 1)

\* day_intensities < median_int; np.median of an array holding nan is nan,
\* and no value is below nan
LowCarbonMask(d) ==
    IF \E s \in DaySlots(d) : intensities(s).kind = "nan" THEN {}
    ELSE {s \in DaySlots(d) : 2 * intensities(s).val < Median2(DaySlots(d))}

\* h = slot_hod / 2.0; (h < 6) or (10 <= h < 14)
Preferred(d) ==
    {s \in DaySlots(d) : slot_hod(s) < 12 \/ (20 <= slot_hod(s) /\ slot_hod(s) < 28)}

\* day_slots[:6]
FirstSix(d) ==
    {s \in DaySlots(d) : Cardinality({u \in DaySlots(d) : u < s}) < 6}

\* the preferred windows ignored
TargetSlots_NoPreference(d) ==
    IF LowCarbonMask(d) # {} THEN LowCarbonMask(d) ELSE FirstSix(d)

\* lines 242-246
TargetSlots(d) ==
    IF Preferred(d) \cap LowCarbonMask(d) # {} THEN Preferred(d) \cap LowCarbonMask(d)
    ELSE IF LowCarbonMask(d) # {} THEN LowCarbonMask(d)
    ELSE FirstSix(d)

\* np.sum(shift_amount_all[hi, day_slots]) * 0.5  (line 225)
CurtailedKwh(h, d) == SumOver(shift_amount_all[h], DaySlots(d)) \div 2

\* the 0.5 h of the slot left out of the division
AddPerSlot_NoHalfHour(curtailed_kwh, n_targets) == curtailed_kwh \div n_targets

\* curtailed_kwh / (len(target_slots) * 0.5)  (line 249)
AddPerSlot(curtailed_kwh, n_targets) == (curtailed_kwh * 2) \div n_targets

\* shifted[t] += add_per_slot  (line 251)
Readd(demand, add_per_slot) == demand + add_per_slot

\* one iteration of the Pass 2 loop; after the last day, line 253 and the
\* household loop's increment
Pass2Day ==
    /\ pc = "pass2"
    /\ LET curtailed_kwh == CurtailedKwh(hi, day)
           targets == TargetSlots(day)
           add_per_slot == AddPerSlot(curtailed_kwh, Cardinality(targets))
           after == IF curtailed_kwh <= 0 THEN shifted
                    ELSE [s \in Slots |->
                            IF s \in targets THEN Readd(shifted[s], add_per_slot)
                            ELSE shifted[s]]
           last == day + 1 >= n_days
       IN  /\ shifted' = after
           /\ shifted_all' = IF last THEN [shifted_all EXCEPT ![hi] = after]
                             ELSE shifted_all
           /\ day' = day + 1
           /\ hi' = IF last THEN hi + 1 ELSE hi
           /\ pc' = IF ~last THEN "pass2"
                    ELSE IF hi + 1 < N_HOUSEHOLDS THEN "household" ELSE "rewards"
    /\ UNCHANGED <<carbon, households, t, baseline_all, shift_amount_all,
                   max_daily_shift_energy, responded_today,
                   shifted_energy_today, hh_rewards, hh_total_shifted_kwh,
                   hh_carbon_avoided, flex_events, summary, households_out,
                   slot_intensity, selected>>

-----------------------------------------------------------------------------
(* Community aggregates and rewards (lines 256-282) *)

agg_baseline(s) == SumOver([h \in HH |-> baseline_all[h][s]], HH)

agg_shifted(s) == SumOver([h \in HH |-> shifted_all[h][s]], HH)

agg_shift_amount(s) == SumOver([h \in HH |-> shift_amount_all[h][s]], HH)

\* np.min(intensities[day_slots])
DayLow(d) == SetMin({intensities(s).val : s \in DaySlots(d)})

\* the slots that pass "if intensities[t] < HIGH_THRESHOLD: continue" and
\* "if shifted_kw > 0" for household h
RewardedSlots(h) ==
    {s \in Slots : ~BelowThreshold(intensities(s)) /\ shift_amount_all[h][s] > 0}

\* delta = intensities[t] - day_low
Delta(s) == intensities(s).val - DayLow(day_of_slot(s))

\* shifted_kwh = shifted_kw * 0.5
ShiftedKwh(h, s) == shift_amount_all[h][s] \div 2

\* shifted_kwh * delta, gCO2
CarbonOfSlot(h, s) == ShiftedKwh(h, s) * Delta(s)

\* a wrong divisor
TokensOfSlot_Per100(h, s) == (ShiftedKwh(h, s) * Delta(s) * TokenSub) \div 100

\* shifted_kwh * delta / 1000, tokens
TokensOfSlot(h, s) == (ShiftedKwh(h, s) * Delta(s) * TokenSub) \div GRAMS_PER_TOKEN

ComputeRewards ==
    /\ pc = "rewards"
    /\ ~HasNaN
    /\ hh_total_shifted_kwh' =
          [h \in HH |-> SumOver([s \in Slots |-> ShiftedKwh(h, s)], RewardedSlots(h))]
    /\ hh_carbon_avoided' =
          [h \in HH |-> SumOver([s \in Slots |-> CarbonOfSlot(h, s)], RewardedSlots(h))]
    /\ hh_rewards' =
          [h \in HH |-> SumOver([s \in Slots |-> TokensOfSlot(h, s)], RewardedSlots(h))]
    /\ pc' = "events"
    /\ UNCHANGED <<carbon, households, hi, t, day, baseline_all, shifted_all,
                   shift_amount_all, shifted, max_daily_shift_energy,
                   responded_today, shifted_energy_today, flex_events, summary,
                   households_out, slot_intensity, selected>>

\* With a nan intensity the reward loop adds nan to the totals and
\* int(intensities[t]) of line 289 raises ValueError: the run ends before
\* any file is written.
AbortOnNaN ==
    /\ pc = "rewards"
    /\ HasNaN
    /\ pc' = "aborted"
    /\ UNCHANGED <<carbon, households, hi, t, day, baseline_all, shifted_all,
                   shift_amount_all, shifted, max_daily_shift_energy,
                   responded_today, shifted_energy_today, hh_rewards,
                   hh_total_shifted_kwh, hh_carbon_avoided, flex_events,
                   summary, households_out, slot_intensity, selected>>

-----------------------------------------------------------------------------
(* flex_responses.json events (lines 285-315) *)

\* the threshold left out
Participates_AnyShift(sk) == sk >= 0

\* if sk > 0.001
Participates(sk) == sk > PARTICIPATION_KW

\* round(float(sk), 3)
ReportedKw(sk) == RoundTo(sk, KW \div 1000)

SlotRecord(s) ==
    LET is_high == intensities(s).val >= HIGH_THRESHOLD
        members == IF is_high
                   THEN {h \in HH : Participates(shift_amount_all[h][s])}
                   ELSE {}
    IN  [intensity_actual |-> intensities(s).val,
         flex_requested |-> is_high,
         participants |->
            {[id |-> households[h].id,
              shifted_kw |-> ReportedKw(shift_amount_all[h][s])] : h \in members},
         aggregate_shifted_kw |->
            RoundTo(SumOver([h \in HH |-> shift_amount_all[h][s]], members),
                    KW \div 1000)]

BuildEvents ==
    /\ pc = "events"
    /\ flex_events' = [s \in Slots |-> SlotRecord(s)]
    /\ pc' = "summary"
    /\ UNCHANGED <<carbon, households, hi, t, day, baseline_all, shifted_all,
                   shift_amount_all, shifted, max_daily_shift_energy,
                   responded_today, shifted_energy_today, hh_rewards,
                   hh_total_shifted_kwh, hh_carbon_avoided, summary,
                   households_out, slot_intensity, selected>>

-----------------------------------------------------------------------------
(* Summary and the household list (lines 317-361) *)

\* the integer nearest to n / d (d > 0), ties to even: round(n / d)
RoundDiv(n, d) == RoundTo(n, d) \div d

\* the "1 -" left out
PeakReductionPct_Ratio(peak_baseline, peak_shifted) ==
    IF peak_baseline > 0 THEN RoundDiv(peak_shifted * 1000, peak_baseline) ELSE 0

\* round((1 - peak_shifted / peak_baseline) * 100, 1) if peak_baseline > 0 else 0,
\* in tenths of a percent
PeakReductionPct(peak_baseline, peak_shifted) ==
    IF peak_baseline > 0
    THEN RoundDiv((peak_baseline - peak_shifted) * 1000, peak_baseline)
    ELSE 0

\* round(x, 1) of a token amount
RoundTokens(x) == RoundTo(x, (KW * TokenSub) \div 10)

Summarise ==
    /\ pc = "summary"
    /\ LET peak_baseline == SetMax({agg_baseline(s) : s \in Slots})
           peak_shifted == SetMax({agg_shifted(s) : s \in Slots})
           high_slots == {s \in Slots : flex_events[s].flex_requested}
           total_shifted_kwh_global ==
               SumOver([s \in Slots |-> flex_events[s].aggregate_shifted_kw \div 2],
                       high_slots)
           n_participants ==
               SumOver([s \in Slots |-> Cardinality(flex_events[s].participants)],
                       high_slots)
       IN  summary' =
             [n_households |-> N_HOUSEHOLDS,
              total_slots |-> n_slots,
              high_carbon_slots |-> Cardinality(high_slots),
              total_shifted_kwh |-> RoundTo(total_shifted_kwh_global, KW \div 100),
              avg_participants_per_event |->
                  IF high_slots # {}
                  THEN RoundDiv(n_participants * 10, Cardinality(high_slots))
                  ELSE 0,
              peak_demand_reduction_pct |-> PeakReductionPct(peak_baseline, peak_shifted),
              total_carbon_avoided_gCO2 |-> RoundTo(SumOver(hh_carbon_avoided, HH), KW),
              total_tokens_issued |-> RoundTokens(SumOver(hh_rewards, HH)),
              peak_baseline_kw |-> RoundTo(peak_baseline, KW \div 10),
              peak_shifted_kw |-> RoundTo(peak_shifted, KW \div 10)]
    /\ households_out' =
          [h \in HH |->
             [id |-> households[h].id,
              total_shifted_kwh |-> RoundTo(hh_total_shifted_kwh[h], KW \div 100),
              carbon_avoided_gCO2 |-> RoundTo(hh_carbon_avoided[h], KW),
              tokens_earned |-> RoundTokens(hh_rewards[h])]]
    /\ pc' = "done"
    /\ UNCHANGED <<carbon, households, hi, t, day, baseline_all, shifted_all,
                   shift_amount_all, shifted, max_daily_shift_energy,
                   responded_today, shifted_energy_today, hh_rewards,
                   hh_total_shifted_kwh, hh_carbon_avoided, flex_events,
                   slot_intensity, selected>>

-----------------------------------------------------------------------------
(* Intensity selection on its own: one slot record read (lines 117-128) and  *)
(* classified as Pass 1 classifies it (line 190)                             *)

InitIntensity ==
    /\ slot_intensity \in [actual : IntensityFields, forecast : IntensityFields]
    /\ selected = Pending
    /\ carbon = <<>>
    /\ households = <<>>
    /\ pc = "intensity"
    /\ hi = 0
    /\ t = 0
    /\ day = 0
    /\ baseline_all = <<>>
    /\ shifted_all = <<>>
    /\ shift_amount_all = <<>>
    /\ shifted = <<>>
    /\ max_daily_shift_energy = 0
    /\ responded_today = EmptyDict
    /\ shifted_energy_today = EmptyDict
    /\ hh_rewards = <<>>
    /\ hh_total_shifted_kwh = <<>>
    /\ hh_carbon_avoided = <<>>
    /\ flex_events = <<>>
    /\ summary = <<>>
    /\ households_out = <<>>

ReadSlotIntensity ==
    /\ pc = "intensity"
    /\ selected = Pending
    /\ selected' = [intensity |-> SelectIntensity(slot_intensity),
                    high_carbon |-> ~BelowThreshold(SelectIntensity(slot_intensity))]
    /\ UNCHANGED <<slot_intensity, engine_vars>>

NextIntensity == ReadSlotIntensity

SpecIntensity == InitIntensity /\ [][NextIntensity]_vars

-----------------------------------------------------------------------------
Next ==
    \/ GenerateHouseholds
    \/ StartHousehold
    \/ Pass1Slot
    \/ Pass2Day
    \/ ComputeRewards
    \/ AbortOnNaN
    \/ BuildEvents
    \/ Summarise

Spec == Init /\ [][Next]_vars

-----------------------------------------------------------------------------
(* Properties *)

\* Both passes have run for household h: line 253 has stored its series.
Finished(h) == pc # "start" /\ pc # "intensity" /\ h < hi

\* The arrays are allocated (line 165 onward).
Allocated == pc # "start" /\ pc # "intensity"

DayBaselineKw(h, d) == SumOver(baseline_all[h], DaySlots(d))

DayShiftedKw(h, d) == SumOver(shifted_all[h], DaySlots(d))

DayCurtailedKw(h, d) == SumOver(shift_amount_all[h], DaySlots(d))

\* C1  Energy conservation.  For every household whose two passes have run
\* and every day with at least one slot below the day's median intensity,
\* the day's shifted energy equals the day's baseline energy: the sums of
\* shifted[t] and of baseline[t] over the day (each times 0.5 h) differ by
\* less than one fixed-point unit per slot of the day.
C1_EnergyConservation ==
    \A h \in HH : Finished(h) =>
        \A d \in Days : LowCarbonMask(d) # {} =>
            Abs(DayShiftedKw(h, d) - DayBaselineKw(h, d)) <= Cardinality(DaySlots(d))

\* A household has finished a day on which it curtailed and which has
\* below-median slots to take the energy back.
C1_Witness ==
    \E h \in HH : Finished(h) /\
        \E d \in Days : LowCarbonMask(d) # {} /\ DayCurtailedKw(h, d) > KW \div 10

\* C2  Curtailment is restricted to high-carbon slots: shift_amount[h, t] > 0
\* implies intensity[t] >= 150.
C2_CurtailOnlyHighCarbon ==
    Allocated =>
        \A h \in HH : \A s \in Slots :
            shift_amount_all[h][s] > 0 => AtLeastThreshold(intensities(s))

\* C3  Demand floor: shifted[t] >= 0.05 kW for every household and slot, in
\* the working series at every point of Pass 1 and Pass 2 and in the stored
\* series.
C3_DemandFloor ==
    /\ pc \in {"pass1", "pass2"} => \A s \in Slots : shifted[s] >= FLOOR_KW
    /\ \A h \in HH : Finished(h) => \A s \in Slots : shifted_all[h][s] >= FLOOR_KW

\* Pass 1 has curtailed a slot down to the floor: less was removed than the
\* flexible load.
C3_Witness ==
    /\ pc \in {"pass1", "pass2"}
    /\ \E s \in Slots :
        /\ shifted[s] = FLOOR_KW
        /\ shift_amount_all[hi][s] > 0
        /\ shift_amount_all[hi][s] < flex_available(hi, s)

-----------------------------------------------------------------------------
(* The four-slot scenario *)

\* one day of four slots with intensities [100, 200, 200, 50]
ScenarioDay ==
    /\ n_slots = 4
    /\ n_days = 1
    /\ \A s \in Slots : intensities(s) = Num(ScenarioIntensities[s])

\* peak_demand_kw = 2.0, max_shift_fraction = 0.3, max_shift_hours = 4,
\* p_respond = 1.0
ScenarioHousehold(h) ==
    /\ households[h].peak_demand_kw = 200
    /\ households[h].max_shift_fraction = 30
    /\ households[h].max_shift_hours = 40
    /\ households[h].p_respond = 100

\* the slot starts in 00:00-06:00 or in 10:00-14:00
InWindow(s) ==
    \/ carbon[s].from.hour < 6
    \/ (10 <= carbon[s].from.hour /\ carbon[s].from.hour < 14)

CurtailedAtOneAndTwoOnly(h) ==
    /\ shift_amount_all[h][0] = 0
    /\ shift_amount_all[h][1] > 0
    /\ shift_amount_all[h][2] > 0
    /\ shift_amount_all[h][3] = 0
    /\ shifted_all[h][1] = baseline_all[h][1] - shift_amount_all[h][1]
    /\ shifted_all[h][2] = baseline_all[h][2] - shift_amount_all[h][2]

\* the slots of {0, 3} that take the energy back
Receivers ==
    IF InWindow(0) = InWindow(3) THEN {0, 3}
    ELSE IF InWindow(3) THEN {3} ELSE {0}

\* C4 as stated: in the scenario the engine curtails at slots 1 and 2 only,
\* puts all of the removed energy into slot 3, and leaves slot 0 at its
\* baseline.
C4_AllIntoSlotThree ==
    \A h \in HH : (Finished(h) /\ ScenarioDay /\ ScenarioHousehold(h)) =>
        /\ CurtailedAtOneAndTwoOnly(h)
        /\ shifted_all[h][0] = baseline_all[h][0]
        /\ Abs(shifted_all[h][3] - baseline_all[h][3]
               - (shift_amount_all[h][1] + shift_amount_all[h][2])) <= 2

\* C4  (amended)  In the scenario the engine curtails at slots 1 and 2 only
\* and returns all of the removed energy, in equal shares, to those of the
\* two below-median slots 0 and 3 that start in a preferred window
\* (00:00-06:00 or 10:00-14:00), or to both when both or neither do.  Slot 0
\* keeps its baseline exactly when slot 3 alone starts in a preferred window.
C4_ScenarioReallocation ==
    \A h \in HH : (Finished(h) /\ ScenarioDay /\ ScenarioHousehold(h)) =>
        /\ CurtailedAtOneAndTwoOnly(h)
        /\ \A s \in {0, 3} :
             IF s \in Receivers
             THEN Abs(Cardinality(Receivers) * (shifted_all[h][s] - baseline_all[h][s])
                      - (shift_amount_all[h][1] + shift_amount_all[h][2]))
                    <= Cardinality(Receivers) + 1
             ELSE shifted_all[h][s] = baseline_all[h][s]

\* The scenario has run on a day whose slot 0 starts in a preferred window
\* and slot 0 ends above its baseline.
C4_Witness ==
    \E h \in HH :
        /\ Finished(h) /\ ScenarioDay /\ ScenarioHousehold(h)
        /\ InWindow(0) /\ InWindow(3)
        /\ shifted_all[h][0] > baseline_all[h][0]
        /\ shifted_all[h][3] > baseline_all[h][3]

-----------------------------------------------------------------------------
AllLow == \A s \in Slots : BelowThreshold(intensities(s))

-----------------------------------------------------------------------------
EventsBuilt == pc \in {"summary", "done"}

\* C6 as stated: no participant entry reports shifted_kw <= 0.001.
C6_ReportedAboveThreshold ==
    EventsBuilt =>
        \A s \in Slots : \A e \in flex_events[s].participants :
            e.shifted_kw > PARTICIPATION_KW

\* C6  (amended)  Every participant entry comes from a shift_amount above
\* 0.001 kW, and the shifted_kw it reports, rounded to 3 decimals, is at
\* least 0.001: it is never below 0.001, and it can equal 0.001.
C6_ParticipationThreshold ==
    EventsBuilt =>
        \A s \in Slots : \A e \in flex_events[s].participants :
            /\ e.shifted_kw >= PARTICIPATION_KW
            /\ \E h \in HH :
                 /\ households[h].id = e.id
                 /\ shift_amount_all[h][s] > PARTICIPATION_KW

\* An entry whose shift_amount is above 0.001 kW reports exactly 0.001.
C6_Witness ==
    EventsBuilt /\
        \E s \in Slots : \E e \in flex_events[s].participants :
            e.shifted_kw = PARTICIPATION_KW

-----------------------------------------------------------------------------
\* actual if present and non-null, else forecast if present and non-null, else 0
ClaimedIntensity(rec) ==
    IF rec.actual.kind = "num" THEN rec.actual.val
    ELSE IF rec.forecast.kind = "num" THEN rec.forecast.val
    ELSE 0

\* C7  Intensity selection: the engine uses actual when it is present and
\* non-null (0 included), else forecast when present and non-null, else 0;
\* a slot missing both is never classified high-carbon.
C7_IntensitySelection ==
    selected # Pending =>
        /\ selected.intensity = Num(ClaimedIntensity(slot_intensity))
        /\ selected.high_carbon = (ClaimedIntensity(slot_intensity) >= HIGH_THRESHOLD)

-----------------------------------------------------------------------------
\* 0.05 token, the rounding error of one figure rounded to 1 decimal
HalfStep == (KW * TokenSub) \div 20

ReportedTokenSum == SumOver([h \in HH |-> households_out[h].tokens_earned], HH)

\* C8  Reward consistency: total_tokens_issued differs from the sum of the
\* reported tokens_earned by at most 0.05 per rounded figure (the total and
\* one per household), and each household's token total is its carbon
\* avoided divided by 1000.
C8_RewardConsistency ==
    pc = "done" =>
        /\ Abs(summary.total_tokens_issued - ReportedTokenSum)
              <= (N_HOUSEHOLDS + 1) * HalfStep
        /\ \A h \in HH :
             hh_rewards[h] * GRAMS_PER_TOKEN = hh_carbon_avoided[h] * TokenSub

\* The run has ended with tokens issued and with the rounded figures
\* adding up to something else than the rounded total.
C8_Witness ==
    /\ pc = "done"
    /\ summary.total_tokens_issued > 0
    /\ summary.total_tokens_issued # ReportedTokenSum

-----------------------------------------------------------------------------
\* C9  Only flexible load is curtailed: 0 <= shift_amount[t] and
\* shift_amount[t] <= baseline[t] * flexible_fraction, and after Pass 1
\* shifted[t] >= baseline[t] * (1 - flexible_fraction).
C9_OnlyFlexibleLoad ==
    /\ Allocated =>
         \A h \in HH : \A s \in Slots :
            /\ 0 <= shift_amount_all[h][s]
            /\ shift_amount_all[h][s] * 20 <= baseline_all[h][s] * FLEX_PROFILE(slot_hod(s))
    /\ (pc = "pass1" \/ (pc = "pass2" /\ day = 0)) =>
         \A s \in Slots :
            shifted[s] * 20 >= baseline_all[hi][s] * (20 - FLEX_PROFILE(slot_hod(s)))

\* Pass 1 has ended with a slot whose whole flexible load was removed.
C9_Witness ==
    /\ pc = "pass2" /\ day = 0
    /\ \E s \in Slots :
         /\ shift_amount_all[hi][s] > 0
         /\ shift_amount_all[hi][s] = flex_available(hi, s)

-----------------------------------------------------------------------------
\* the household's weekly baseline energy, sum of baseline[t] * 0.5 h
WeekBaselineKwh(h) == SumOver([s \in Slots |-> baseline_all[h][s] \div 2], Slots)

\* C10  Daily energy budget: max_daily_shift_energy is max_shift_fraction *
\* total_week_baseline_kWh / number_of_days, and the energy curtailed on a
\* day never exceeds it.
C10_DailyEnergyBudget ==
    pc \in {"pass1", "pass2"} =>
        /\ Abs(max_daily_shift_energy * 100 * n_days
               - households[hi].max_shift_fraction * WeekBaselineKwh(hi))
              <= 100 * n_days
        /\ \A d \in DOMAIN shifted_energy_today :
             shifted_energy_today[d] * 100 * n_days
                <= households[hi].max_shift_fraction * WeekBaselineKwh(hi)

-----------------------------------------------------------------------------
\* hours_shifted_today <= max_shift_hours, with hours_shifted_today =
\* energy_shifted_today / peak_demand_kw
WithinShiftHours(hh, energy) ==
    energy * 100 * 10 <= hh.max_shift_hours * hh.peak_demand_kw * KW

\* C11  Daily hours limit: after any slot of Pass 1 the hours shifted on a
\* day, energy_shifted_today / peak_demand_kw, do not exceed the household's
\* max_shift_hours.
C11_DailyHoursLimit ==
    pc \in {"pass1", "pass2"} =>
        \A d \in DOMAIN shifted_energy_today :
            WithinShiftHours(households[hi], shifted_energy_today[d])

-----------------------------------------------------------------------------
\* the slots Pass 1 has gone through for the current household
Processed == {s \in Slots : s < t}

\* the days with a high-carbon slot among the slots S
HighCarbonDays(S) == {day_of_slot(s) : s \in {x \in S : AtLeastThreshold(intensities(x))}}

\* The decision of a day exists exactly from the day's first high-carbon
\* slot on, and a day decided against has no curtailment.
DecisionAtFirstHighSlot ==
    pc \in {"pass1", "pass2"} =>
        /\ DOMAIN responded_today = HighCarbonDays(Processed)
        /\ \A d \in DOMAIN responded_today :
              ~responded_today[d] =>
                  \A s \in DaySlots(d) : shift_amount_all[hi][s] = 0

\* One iteration of Pass 1 leaves the decisions taken as they are and
\* lowers no day's energy_shifted_today.
DecisionKept ==
    pc = "pass1" =>
        /\ \A d \in DOMAIN responded_today :
              d \in DOMAIN responded_today' /\ responded_today'[d] = responded_today[d]
        /\ \A d \in DOMAIN shifted_energy_today :
              /\ d \in DOMAIN shifted_energy_today'
              /\ shifted_energy_today'[d] >= shifted_energy_today[d]

\* C12  Daily response decision: for each household and day the decision is
\* drawn once, at the day's first high-carbon slot, and not on a day without
\* one; it stays fixed for the rest of the day; a day decided against has
\* shift_amount zero at every slot; energy_shifted_today never decreases
\* over the day's slots.
C12_DailyResponseDecision == [](DecisionAtFirstHighSlot) /\ [][DecisionKept]_vars

=============================================================================
